---- MODULE Spec2Model ----
(***************************************************************************)
(* BlockMe: the colour-to-block matching of blockme/palette.py (Palette)   *)
(* and the voxel assembly loop of blockme/convert.py                       *)
(* (convert_to_schematic_from_positions).                                  *)
(*                                                                         *)
(* Two specifications share the variables:                                 *)
(*   Spec         a constructed Palette object on which apply_settings and *)
(*                find_block are called in any order;                      *)
(*   SpecConvert  one call of convert_to_schematic_from_positions on a     *)
(*                Palette object, one loop iteration per step.             *)
(***************************************************************************)
EXTENDS Integers, Sequences, FiniteSets, TLC

VARIABLES
    \* ---- Palette object (palette.py) ----
    all_blocks,            \* self.all_blocks: list of {"block", "color"}
    blocktypes,            \* self.blocktypes: category name -> list of block names
    predefined_palettes,   \* self.predefined_palettes: theme -> list of block names
    settings,              \* self.settings (set by __init__ only)
    blocks,                \* self.blocks: the Active Palette
    call,                  \* the last Palette method call: arguments and outcome
    \* ---- one run of convert_to_schematic_from_positions (convert.py) ----
    status,                \* "idle" | "running" | "returned" | "raised"
    exc,                   \* the exception that left the function, or "none"
    image_val,             \* list(skin_img.getdata())
    mapping_positions,     \* list of (idx, (x, y, z))
    pos,                   \* number of mapping entries the for loop has consumed
    rgba,                  \* loop local: the pixel read at line 56
    block,                 \* loop local: the matched / substituted block
    block_below,           \* loop local: result of schem.getBlockStateAt
    sink_read,             \* how getBlockStateAt ended in the latest iteration
    schem,                 \* the MCSchematic: coordinate -> block
    counts,                \* the Counter: block -> count
    processed,
    skipped_transparent,
    skipped_oob

paletteVars == <<all_blocks, blocktypes, predefined_palettes, settings, blocks, call>>
convertVars == <<status, exc, image_val, mapping_positions, pos, rgba, block,
                 block_below, sink_read, schem, counts, processed,
                 skipped_transparent, skipped_oob>>
vars == <<all_blocks, blocktypes, predefined_palettes, settings, blocks, call,
          status, exc, image_val, mapping_positions, pos, rgba, block,
          block_below, sink_read, schem, counts, processed,
          skipped_transparent, skipped_oob>>

(***************************************************************************)
(* Bounds and the universe of inputs                                       *)
(***************************************************************************)
\* longest catalogue (blocks.json) explored
MaxCatalog == 2
\* longest position mapping explored
MaxMap == 2

\* Python's None
None == "None"
\* a local name that has not been bound yet
Unbound == "unbound"

\* constants.py
MINECRAFT_AIR_BLOCK == "minecraft:air"
ALPHA_CHANNEL_INDEX == 3
TRANSPARENT_ALPHA == 0
SUPPORT_CHECK_OFFSET == -1

\* The materials a blocks.json may list.  A and D are equidistant from Dark;
\* A and C are equidistant from Grey; B and C differ in alpha only.
Material(n, c) == [block |-> n, color |-> c]
MaterialA == Material("A", <<0, 0, 0, 255>>)
MaterialB == Material("B", <<255, 255, 255, 255>>)
MaterialC == Material("C", <<255, 255, 255, 0>>)
MaterialD == Material("D", <<20, 20, 20, 255>>)
Universe == {MaterialA, MaterialB, MaterialC, MaterialD}

\* query colours / pixels
Dark  == <<10, 10, 10, 255>>
Light == <<240, 240, 240, 255>>
Grey  == <<128, 128, 128, 129>>
Clear == <<0, 0, 0, 0>>
Colors == {Dark, Light, Grey, Clear}

SeqToSet(s) == {s[i] : i \in DOMAIN s}

\* every list of distinct materials of length 1..MaxCatalog
NoRepeat(s) == \A i, j \in DOMAIN s : i # j => s[i] # s[j]
Catalogs ==
    UNION {{s \in [1..n -> Universe] : NoRepeat(s)} : n \in 1..MaxCatalog}

\* blocktypes.json: with and without the "falling_blocks" key
BlockTypeTables ==
    { [falling_blocks |-> <<"B", "D">>, unobtainable_survival |-> <<"C", "Q">>],
      [unobtainable_survival |-> <<"A">>] }

\* palettes.json: a theme naming known and unknown blocks, a theme with an
\* empty list, a theme naming unknown blocks only
PredefinedPalettes ==
    [light |-> <<"C", "B", "Q">>, empty |-> <<>>, ghost |-> <<"Q">>]

Themes == {"none", "light", "empty", "ghost", "absent"}
\* custom_palette: missing or [] (both falsy), known blocks in another order
\* with a repetition, unknown blocks only
CustomPalettes == {<<>>, <<"D", "A", "D">>, <<"Q">>}
BlocksEnabled ==
    { [k \in {} |-> FALSE],
      [falling_blocks |-> FALSE],
      [falling_blocks |-> TRUE, unobtainable_survival |-> FALSE,
       no_such_type |-> FALSE] }
\* every theme and category map without a custom palette; with one, the
\* themes that would select something else
SettingsSet ==
    [theme : Themes, custom_palette : {<<>>}, blocks_enabled : BlocksEnabled]
        \cup [theme : {"none", "light"}, custom_palette : CustomPalettes \ {<<>>},
              blocks_enabled : BlocksEnabled]
\* the settings.json a Palette is constructed with: DEFAULT_SETTINGS of
\* constants.py, and one with a disabled category
DefaultSettings ==
    [theme |-> "none", custom_palette |-> <<>>, blocks_enabled |-> [k \in {} |-> FALSE]]
ConstructSettings ==
    { DefaultSettings,
      [DefaultSettings EXCEPT !.blocks_enabled = [falling_blocks |-> FALSE]] }

(***************************************************************************)
(* Palette.filter_blocks_by_palette and Palette.apply_settings             *)
(***************************************************************************)
\* dict.get(key, [])
DictGet(d, key) == IF key \in DOMAIN d THEN d[key] ELSE <<>>

RECURSIVE InListOrder(_, _, _)
InListOrder(all, palette_blocks, i) ==
    IF i > Len(palette_blocks) THEN <<>>
    ELSE SelectSeq(all, LAMBDA b : b.block = palette_blocks[i])
             \o InListOrder(all, palette_blocks, i + 1)
NamedBlocksInListOrder(all, palette_blocks) ==
    InListOrder(all, palette_blocks, 1)

\* the list comprehension of line 62
NamedBlocks(all, palette_blocks) ==
    SelectSeq(all, LAMBDA b : b.block \in SeqToSet(palette_blocks))

\* filter_blocks_by_palette: [raised, value]
filter_blocks_by_palette(all, palette_blocks) ==
    IF palette_blocks = <<>>
    THEN [raised |-> FALSE, value |-> all]
    ELSE LET filtered == NamedBlocks(all, palette_blocks)
         IN  IF filtered = <<>>
             THEN [raised |-> TRUE, value |-> <<>>]
             ELSE [raised |-> FALSE, value |-> filtered]

\* lines 89-94: the names of every block of a category whose flag is falsy
DisabledBlocksIgnoringFlag(bt, s) ==
    UNION { SeqToSet(DictGet(bt, key)) : key \in DOMAIN s.blocks_enabled }

DisabledBlocks(bt, s) ==
    UNION { SeqToSet(DictGet(bt, key)) :
              key \in {k \in DOMAIN s.blocks_enabled : ~s.blocks_enabled[k]} }

\* lines 96-119: the value assigned to self.blocks before category filtering
SelectByPriority(all, pp, s) ==
    IF s.custom_palette # <<>>
    THEN filter_blocks_by_palette(all, s.custom_palette)
    ELSE IF s.theme # "none" /\ s.theme \in DOMAIN pp
    THEN filter_blocks_by_palette(all, pp[s.theme])
    ELSE [raised |-> FALSE, value |-> all]

\* lines 121-126
RemoveDisabled(bs, disabled) ==
    SelectSeq(bs, LAMBDA b : b.block \notin disabled)

\* apply_settings as a whole.  selected is self.blocks at line 122; line is
\* the line of the raise statement that ended the call (0: returned).
apply_settings(self_blocks, all, bt, pp, s) ==
    LET sel == SelectByPriority(all, pp, s)
    IN  IF sel.raised
        THEN [blocks |-> self_blocks, raised |-> "ValueError", line |-> 66,
              selected |-> <<>>]
        ELSE LET kept == RemoveDisabled(sel.value, DisabledBlocks(bt, s))
             IN  [blocks |-> kept,
                  raised |-> IF kept = <<>> THEN "ValueError" ELSE "none",
                  line |-> IF kept = <<>> THEN 133 ELSE 0,
                  selected |-> sel.value]

(***************************************************************************)
(* Palette.get_falling_blocks, color_distance, find_block                  *)
(***************************************************************************)
get_falling_blocks(bt) == DictGet(bt, "falling_blocks")

Abs(n) == IF n < 0 THEN -n ELSE n

color_distance_rgb(c1, c2) ==
    Abs(c1[1] - c2[1]) + Abs(c1[2] - c2[2]) + Abs(c1[3] - c2[3])

color_distance(c1, c2) ==
    Abs(c1[1] - c2[1]) + Abs(c1[2] - c2[2]) + Abs(c1[3] - c2[3])
        + Abs(c1[4] - c2[4])

\* float("inf"): a value no distance equals, compared by Improves
Infinity == -1

InitialBestDiffFinite == 3 * 255

\* line 167
InitialBestDiff == Infinity

ImprovesOrTies(diff, best_diff) ==
    IF best_diff = Infinity THEN TRUE ELSE diff <= best_diff

\* line 177: diff < best_diff
Improves(diff, best_diff) ==
    IF best_diff = Infinity THEN TRUE ELSE diff < best_diff

NeverSkipped(b, falling_blocks, exclude_falling) == FALSE

\* line 173
Skipped(b, falling_blocks, exclude_falling) ==
    exclude_falling /\ b.block \in falling_blocks

\* the for loop of lines 171-179 from element i on
RECURSIVE find_block_scan(_, _, _, _, _, _, _)
find_block_scan(bs, falling_blocks, c, exclude_falling, i, best, best_diff) ==
    IF i > Len(bs) THEN best
    ELSE IF Skipped(bs[i], falling_blocks, exclude_falling)
    THEN find_block_scan(bs, falling_blocks, c, exclude_falling, i + 1,
                         best, best_diff)
    ELSE LET diff == color_distance(c, bs[i].color)
         IN  IF Improves(diff, best_diff)
             THEN find_block_scan(bs, falling_blocks, c, exclude_falling,
                                  i + 1, bs[i].block, diff)
             ELSE find_block_scan(bs, falling_blocks, c, exclude_falling,
                                  i + 1, best, best_diff)

find_block(bs, bt, c, exclude_falling) ==
    LET falling_blocks ==
            IF exclude_falling THEN SeqToSet(get_falling_blocks(bt)) ELSE {}
    IN  find_block_scan(bs, falling_blocks, c, exclude_falling, 1, None,
                        InitialBestDiff)

(***************************************************************************)
(* Spec: a Palette object and the calls made on it                         *)
(***************************************************************************)
NoCall ==
    [op |-> "__init__", settings |-> <<>>, selected |-> <<>>, raised |-> "none",
     line |-> 0, rgba |-> <<>>, exclude_falling |-> FALSE,
     ret |-> None]

ConvertIdle ==
    /\ status = "idle"
    /\ exc = "none"
    /\ image_val = <<>>
    /\ mapping_positions = <<>>
    /\ pos = 0
    /\ rgba = Unbound
    /\ block = Unbound
    /\ block_below = Unbound
    /\ sink_read = "none"
    /\ schem = <<>>
    /\ counts = <<>>
    /\ processed = 0
    /\ skipped_transparent = 0
    /\ skipped_oob = 0

\* Palette.__init__ (lines 25-43) returned: apply_settings(settings) did not
\* raise, so the object exists.
Constructed(cat, bt, s) ==
    LET r == apply_settings(cat, cat, bt, PredefinedPalettes, s)
    IN  /\ r.raised = "none"
        /\ all_blocks = cat
        /\ blocktypes = bt
        /\ predefined_palettes = PredefinedPalettes
        /\ settings = s
        /\ blocks = r.blocks
        /\ call = [NoCall EXCEPT !.settings = s, !.selected = r.selected]

Init ==
    /\ \E cat \in Catalogs, bt \in BlockTypeTables, s \in ConstructSettings :
            Constructed(cat, bt, s)
    /\ ConvertIdle

\* palette.apply_settings(s) on the existing object; a ValueError is caught
\* by the caller and the object lives on.
ApplySettings(s) ==
    LET r == apply_settings(blocks, all_blocks, blocktypes, predefined_palettes, s)
    IN  /\ status = "idle"
        /\ blocks' = r.blocks
        /\ call' = [NoCall EXCEPT !.op = "apply_settings", !.settings = s,
                                  !.selected = r.selected, !.raised = r.raised,
                                  !.line = r.line]
        /\ UNCHANGED <<all_blocks, blocktypes, predefined_palettes, settings>>
        /\ UNCHANGED convertVars

\* palette.find_block(c, exclude_falling)
FindBlock(c, exclude_falling) ==
    /\ status = "idle"
    /\ call' = [NoCall EXCEPT !.op = "find_block", !.rgba = c,
                              !.exclude_falling = exclude_falling,
                              !.ret = find_block(blocks, blocktypes, c,
                                                 exclude_falling)]
    /\ UNCHANGED <<all_blocks, blocktypes, predefined_palettes, settings, blocks>>
    /\ UNCHANGED convertVars

Next ==
    \/ \E s \in SettingsSet : ApplySettings(s)
    \/ \E c \in Colors, e \in BOOLEAN : FindBlock(c, e)

Spec == Init /\ [][Next]_vars

(***************************************************************************)
(* SpecConvert: convert_to_schematic_from_positions(skin_img,              *)
(* mapping_positions, palette)                                             *)
(***************************************************************************)
\* the skin: an opaque dark pixel, an opaque light pixel, a transparent one
ConvImages == {<<Dark, Light, Clear>>}
\* pixel indices on both sides of the image, and coordinates of which one is
\* directly above another and one is beside it
PixelIndices == -1..3
Coordinates == {<<0, 0, 0>>, <<0, 1, 0>>, <<1, 0, 0>>}
MappingEntries == PixelIndices \X Coordinates
Mappings == UNION {[1..n -> MappingEntries] : n \in 0..MaxMap}

\* Palette objects handed to the conversion: [all_blocks, blocktypes, blocks]
FallingTable ==
    [falling_blocks |-> <<"B", "D">>, unobtainable_survival |-> <<"C", "Q">>]
ConvCatalogs ==
    { <<MaterialA, MaterialB>>, <<MaterialB>>, <<MaterialD, MaterialA>>,
      <<MaterialA, MaterialC, MaterialB>> }
\* settings a conversion runs under: the defaults, or falling blocks disabled
\* by a later apply_settings call (which may leave the palette empty)
ConvSettings ==
    { DefaultSettings,
      [DefaultSettings EXCEPT !.blocks_enabled = [falling_blocks |-> FALSE]] }

\* exceptions the handler of line 81 names, and one it does not
CaughtErrors == {"IndexError", "KeyError", "AttributeError"}
UncaughtErrors == {"TypeError"}

\* (x, y + SUPPORT_CHECK_OFFSET, z) of line 73
BelowIsAbove(xyz) == <<xyz[1], xyz[2] + 1, xyz[3]>>

Below(xyz) == <<xyz[1], xyz[2] + SUPPORT_CHECK_OFFSET, xyz[3]>>

\* schem.getBlockStateAt(p), the values it may return: the block the
\* schematic holds at p; air or None where it holds nothing
getBlockStateAt(sch, p) ==
    IF p \in DOMAIN sch THEN {sch[p]} ELSE {MINECRAFT_AIR_BLOCK, None}

\* schem.getBlockStateAt(p), the exceptions it may raise: a lookup of a
\* coordinate the schematic holds succeeds, a lookup of one it does not hold
\* may fail
getBlockStateAtRaises(sch, p) ==
    IF p \in DOMAIN sch THEN {} ELSE CaughtErrors \cup UncaughtErrors

OnlyNoneIsVoid(b) == b = None

\* line 75
IsVoid(b) == b = None \/ b = MINECRAFT_AIR_BLOCK

AlwaysSupported(b) == TRUE

\* line 75 as the support test reads it: a block below keeps the match
HasSupport(b) == ~IsVoid(b)

\* schem.setBlock((x, y, z), block)
setBlock(sch, p, b) ==
    [q \in DOMAIN sch \cup {p} |-> IF q = p THEN b ELSE sch[q]]

MarkPresent(cnt, b) ==
    [k \in DOMAIN cnt \cup {b} |-> 1]

\* counts[block] += 1 on a Counter
Increment(cnt, b) ==
    [k \in DOMAIN cnt \cup {b} |->
        IF k = b THEN (IF b \in DOMAIN cnt THEN cnt[b] ELSE 0) + 1 ELSE cnt[k]]

InitConvert ==
    /\ \E cat \in ConvCatalogs, s \in ConvSettings :
          LET r == apply_settings(cat, cat, FallingTable, PredefinedPalettes, s)
          IN  /\ all_blocks = cat
              /\ blocktypes = FallingTable
              /\ predefined_palettes = PredefinedPalettes
              /\ settings = DefaultSettings
              /\ blocks = r.blocks
              /\ call = [NoCall EXCEPT !.op = "apply_settings", !.settings = s,
                                       !.selected = r.selected,
                                       !.raised = r.raised, !.line = r.line]
    /\ status = "running"
    /\ exc = "none"
    /\ image_val \in ConvImages
    /\ mapping_positions \in Mappings
    /\ pos = 0
    /\ rgba = Unbound
    /\ block = Unbound
    /\ block_below = Unbound
    /\ sink_read = "none"
    /\ schem = <<>>
    /\ counts = <<>>
    /\ processed = 0
    /\ skipped_transparent = 0
    /\ skipped_oob = 0

\* the entry the for statement of line 46 fetches next
HasNext == status = "running" /\ pos < Len(mapping_positions)
NextEntryFromEnd == mapping_positions[Len(mapping_positions) - pos]
NextEntry == mapping_positions[pos + 1]
NextIdx == NextEntry[1]
NextXYZ == NextEntry[2]
image_size == Len(image_val)
OutOfBounds(idx) == idx < 0 \/ idx >= image_size
NextPixel == image_val[NextIdx + 1]
NeverTransparent(px) == FALSE
Transparent(px) == px[ALPHA_CHANNEL_INDEX + 1] = TRANSPARENT_ALPHA
PrimaryMatch == find_block(blocks, blocktypes, NextPixel, FALSE)
Rematch == find_block(blocks, blocktypes, NextPixel, TRUE)
falling_blocks == SeqToSet(get_falling_blocks(blocktypes))
Matching == HasNext /\ ~OutOfBounds(NextIdx) /\ ~Transparent(NextPixel)

\* lines 89-91
Commit(b) ==
    /\ schem' = setBlock(schem, NextXYZ, b)
    /\ counts' = Increment(counts, b)
    /\ processed' = processed + 1
    /\ block' = b
    /\ UNCHANGED <<status, exc>>

RaiseAndContinue(e, b) ==
    /\ status' = status
    /\ exc' = e
    /\ block' = b
    /\ UNCHANGED <<schem, counts, processed>>

\* a raise statement ends the call
Raise(e, b) ==
    /\ status' = "raised"
    /\ exc' = e
    /\ block' = b
    /\ UNCHANGED <<schem, counts, processed>>

\* lines 48-54
SkipOutOfBounds ==
    /\ HasNext
    /\ OutOfBounds(NextIdx)
    /\ skipped_oob' = skipped_oob + 1
    /\ pos' = pos + 1
    /\ sink_read' = "none"
    /\ UNCHANGED <<status, exc, image_val, mapping_positions, rgba, block,
                   block_below, schem, counts, processed, skipped_transparent>>
    /\ UNCHANGED paletteVars

\* lines 56-60
SkipTransparent ==
    /\ HasNext
    /\ ~OutOfBounds(NextIdx)
    /\ Transparent(NextPixel)
    /\ rgba' = NextPixel
    /\ skipped_transparent' = skipped_transparent + 1
    /\ pos' = pos + 1
    /\ sink_read' = "none"
    /\ UNCHANGED <<status, exc, image_val, mapping_positions, block, block_below,
                   schem, counts, processed, skipped_oob>>
    /\ UNCHANGED paletteVars

\* lines 62-67: no block at all
FailNoMatch ==
    /\ Matching
    /\ PrimaryMatch = None
    /\ rgba' = NextPixel
    /\ pos' = pos + 1
    /\ sink_read' = "none"
    /\ Raise("ValueError", None)
    /\ UNCHANGED <<image_val, mapping_positions, block_below,
                   skipped_transparent, skipped_oob>>
    /\ UNCHANGED paletteVars

\* lines 62-70, 89-91: the match is not a falling block
PlaceDirect ==
    /\ Matching
    /\ PrimaryMatch # None
    /\ PrimaryMatch \notin falling_blocks
    /\ rgba' = NextPixel
    /\ pos' = pos + 1
    /\ sink_read' = "none"
    /\ Commit(PrimaryMatch)
    /\ UNCHANGED <<image_val, mapping_positions, block_below,
                   skipped_transparent, skipped_oob>>
    /\ UNCHANGED paletteVars

\* lines 70-75, 89-91: a falling match with a block below it
PlaceSupported ==
    /\ Matching
    /\ PrimaryMatch \in falling_blocks
    /\ \E b \in getBlockStateAt(schem, Below(NextXYZ)) :
          /\ HasSupport(b)
          /\ block_below' = b
    /\ rgba' = NextPixel
    /\ pos' = pos + 1
    /\ sink_read' = "returned"
    /\ Commit(PrimaryMatch)
    /\ UNCHANGED <<image_val, mapping_positions, skipped_transparent, skipped_oob>>
    /\ UNCHANGED paletteVars

SubstituteByShrinkingPalette ==
    /\ Matching
    /\ PrimaryMatch \in falling_blocks
    /\ \E b \in getBlockStateAt(schem, Below(NextXYZ)) :
          /\ ~HasSupport(b)
          /\ block_below' = b
    /\ rgba' = NextPixel
    /\ pos' = pos + 1
    /\ sink_read' = "returned"
    /\ blocks' = RemoveDisabled(blocks, falling_blocks)
    /\ IF Rematch = None THEN Raise("ValueError", None) ELSE Commit(Rematch)
    /\ UNCHANGED <<image_val, mapping_positions, skipped_transparent, skipped_oob>>
    /\ UNCHANGED <<all_blocks, blocktypes, predefined_palettes, settings, call>>

\* lines 70-80, 89-91: a falling match over air or None: re-match without
\* falling blocks, ValueError when there is none
SubstituteUnsupported ==
    /\ Matching
    /\ PrimaryMatch \in falling_blocks
    /\ \E b \in getBlockStateAt(schem, Below(NextXYZ)) :
          /\ ~HasSupport(b)
          /\ block_below' = b
    /\ rgba' = NextPixel
    /\ pos' = pos + 1
    /\ sink_read' = "returned"
    /\ IF Rematch = None THEN Raise("ValueError", None) ELSE Commit(Rematch)
    /\ UNCHANGED <<image_val, mapping_positions, skipped_transparent, skipped_oob>>
    /\ UNCHANGED paletteVars

\* lines 81-87, 89-91: getBlockStateAt raised IndexError, KeyError or
\* AttributeError: block_below stays as it was, re-match as above
SubstituteOnReadError ==
    /\ Matching
    /\ PrimaryMatch \in falling_blocks
    /\ \E e \in getBlockStateAtRaises(schem, Below(NextXYZ)) \cap CaughtErrors :
          sink_read' = e
    /\ rgba' = NextPixel
    /\ pos' = pos + 1
    /\ IF Rematch = None THEN Raise("ValueError", None) ELSE Commit(Rematch)
    /\ UNCHANGED <<image_val, mapping_positions, block_below,
                   skipped_transparent, skipped_oob>>
    /\ UNCHANGED paletteVars

\* line 73 raising anything else: no handler, the exception leaves the call
PropagateReadError ==
    /\ Matching
    /\ PrimaryMatch \in falling_blocks
    /\ \E e \in getBlockStateAtRaises(schem, Below(NextXYZ)) \ CaughtErrors :
          /\ sink_read' = e
          /\ Raise(e, PrimaryMatch)
    /\ rgba' = NextPixel
    /\ pos' = pos + 1
    /\ UNCHANGED <<image_val, mapping_positions, block_below,
                   skipped_transparent, skipped_oob>>
    /\ UNCHANGED paletteVars

\* line 99
Return ==
    /\ status = "running"
    /\ pos = Len(mapping_positions)
    /\ status' = "returned"
    /\ UNCHANGED <<exc, image_val, mapping_positions, pos, rgba, block,
                   block_below, sink_read, schem, counts, processed,
                   skipped_transparent, skipped_oob>>
    /\ UNCHANGED paletteVars

NextConvert ==
    \/ SkipOutOfBounds
    \/ SkipTransparent
    \/ FailNoMatch
    \/ PlaceDirect
    \/ PlaceSupported
    \/ SubstituteUnsupported
    \/ SubstituteOnReadError
    \/ PropagateReadError
    \/ Return

SpecConvert == InitConvert /\ [][NextConvert]_vars

(***************************************************************************)
(* Vocabulary of the properties, written without the operators above       *)
(***************************************************************************)
ChannelGap(c, d, i) == IF c[i] >= d[i] THEN c[i] - d[i] ELSE d[i] - c[i]
Manhattan(c, d) ==
    ChannelGap(c, d, 1) + ChannelGap(c, d, 2) + ChannelGap(c, d, 3)
        + ChannelGap(c, d, 4)

Members(category) ==
    IF category \in DOMAIN blocktypes
    THEN {blocktypes[category][i] : i \in DOMAIN blocktypes[category]}
    ELSE {}
FallingNames == Members("falling_blocks")

\* positions of the Active Palette a query may return
Eligible(exclude_falling) ==
    {i \in DOMAIN blocks : ~(exclude_falling /\ blocks[i].block \in FallingNames)}
Nearest(c, exclude_falling) ==
    {i \in Eligible(exclude_falling) :
        \A j \in Eligible(exclude_falling) :
            Manhattan(c, blocks[i].color) <= Manhattan(c, blocks[j].color)}
FirstNearest(c, exclude_falling) ==
    CHOOSE i \in Nearest(c, exclude_falling) :
        \A j \in Nearest(c, exclude_falling) : i <= j

Queried == call.op = "find_block"
Resolved == call.op = "apply_settings"

\* C1: for a non-empty Active Palette, find_block(c) without exclusion
\* returns a material of the palette whose four-channel Manhattan distance
\* to c is at most that of every material of the palette.
C1_NearestMaterial ==
    (Queried /\ ~call.exclude_falling /\ blocks # <<>>) =>
        \E i \in DOMAIN blocks :
            /\ call.ret = blocks[i].block
            /\ \A j \in DOMAIN blocks :
                  Manhattan(call.rgba, blocks[i].color)
                      <= Manhattan(call.rgba, blocks[j].color)

\* a query answered with a material that is not the first of the palette and
\* that an RGB-only distance would not single out
C1_Witness ==
    /\ Queried /\ ~call.exclude_falling
    /\ Len(blocks) >= 2
    /\ call.ret = blocks[2].block
    /\ blocks[1].color[4] # blocks[2].color[4]

\* C2: among eligible materials at the same minimum distance find_block
\* returns the one that comes first in the palette's order; the result is
\* therefore a function of the palette and the colour.
C2_FirstSeenWins ==
    (Queried /\ Eligible(call.exclude_falling) # {}) =>
        call.ret = blocks[FirstNearest(call.rgba, call.exclude_falling)].block

\* a query with two materials tied at the minimum distance
C2_Witness ==
    /\ Queried
    /\ Cardinality(Nearest(call.rgba, call.exclude_falling)) >= 2
    /\ call.ret = blocks[1].block

\* C3: find_block(c, exclude_falling=True) never returns a falling material,
\* and what it returns is the first minimum-distance material among the
\* materials of the Active Palette that are not falling.
C3_ExcludeFalling ==
    (Queried /\ call.exclude_falling) =>
        /\ call.ret \notin FallingNames
        /\ call.ret # None =>
              /\ FirstNearest(call.rgba, TRUE) \in Eligible(TRUE)
              /\ call.ret = blocks[FirstNearest(call.rgba, TRUE)].block

\* an excluding query whose unrestricted nearest material is falling
C3_Witness ==
    /\ Queried /\ call.exclude_falling
    /\ call.ret # None
    /\ blocks[FirstNearest(call.rgba, FALSE)].block \in FallingNames

\* C4: find_block returns None exactly when no material is eligible (the
\* Active Palette minus the falling materials when exclusion is requested).
C4_NotFoundIffNoCandidate ==
    Queried => (call.ret = None <=> Eligible(call.exclude_falling) = {})

\* None from a non-empty palette whose materials are all falling
C4_Witness ==
    /\ Queried /\ call.exclude_falling
    /\ blocks # <<>>
    /\ call.ret = None


\* the catalogue materials a list of identifiers names
NamedBy(list) ==
    {all_blocks[i] : i \in {k \in DOMAIN all_blocks :
                               \E n \in DOMAIN list : list[n] = all_blocks[k].block}}
FullCatalog == {all_blocks[i] : i \in DOMAIN all_blocks}
ThemeHasList(s) == s.theme # "none" /\ s.theme \in DOMAIN predefined_palettes
\* the pre-category-filter set the priority rule prescribes
PrioritySet(s) ==
    IF s.custom_palette # <<>> THEN NamedBy(s.custom_palette)
    ELSE IF ThemeHasList(s) THEN NamedBy(predefined_palettes[s.theme])
    ELSE FullCatalog
\* the call got as far as the category filter (line 122)
ReachedCategoryFilter == Resolved /\ call.line # 66
SelectedSet == {call.selected[i] : i \in DOMAIN call.selected}
ActiveSet == {blocks[i] : i \in DOMAIN blocks}

\* C5: the pre-category-filter set follows the strict priority: a non-empty
\* custom allow-list gives exactly the catalogue materials it names (theme
\* ignored); else a configured theme with a predefined allow-list gives
\* exactly the catalogue materials that list names; else the full catalogue.
C5_PriorityRule ==
    ReachedCategoryFilter => SelectedSet = PrioritySet(call.settings)

\* C6: when the allow-list selected by the priority rule names no material
\* of the catalogue, or category filtering removes every remaining material,
\* resolution fails with ValueError; the palette is never widened to the
\* full catalogue instead.
SelectedListNamesNothing(s) ==
    \/ s.custom_palette # <<>> /\ NamedBy(s.custom_palette) = {}
    \/ s.custom_palette = <<>> /\ ThemeHasList(s)
           /\ NamedBy(predefined_palettes[s.theme]) = {}
C6_EmptyResultIsFatal ==
    Resolved =>
        /\ SelectedListNamesNothing(call.settings) => call.raised = "ValueError"
        /\ (call.line # 66 /\ blocks = <<>>) => call.raised = "ValueError"

\* C7: the Active Palette is never empty, in any state after construction
\* and after any further apply_settings call, failed calls included.
C7_NeverEmpty == blocks # <<>>

\* C8: category filtering only shrinks: the Active Palette after
\* apply_settings is a sublist of the set chosen by the priority rule, holds
\* no member of a category whose flag is false, and drops nothing else; an
\* unknown category and a category whose flag is true remove nothing.
DisabledCategories(s) ==
    {k \in DOMAIN s.blocks_enabled : s.blocks_enabled[k] = FALSE}
InDisabledCategory(name, s) ==
    \E k \in DisabledCategories(s) : name \in Members(k)
C8_CategoryFilterOnlyShrinks ==
    ReachedCategoryFilter =>
        /\ ActiveSet \subseteq SelectedSet
        /\ \A m \in ActiveSet : ~InDisabledCategory(m.block, call.settings)
        /\ \A m \in SelectedSet \ ActiveSet :
              InDisabledCategory(m.block, call.settings)

\* a resolution that disables one known and one unknown category, enables
\* another, removes a material and keeps a member of the enabled category
C8_Witness ==
    /\ ReachedCategoryFilter
    /\ DOMAIN call.settings.blocks_enabled =
           {"falling_blocks", "unobtainable_survival", "no_such_type"}
    /\ SelectedSet \ ActiveSet # {}
    /\ \E m \in ActiveSet : m.block \in FallingNames

(***************************************************************************)
(* Properties of the conversion loop                                       *)
(***************************************************************************)
\* this step processes a mapping entry whose pixel is in range and opaque
EntryMatched ==
    /\ status = "running"
    /\ pos < Len(mapping_positions)
    /\ pos' = pos + 1
    /\ NextIdx \in 0..(Len(image_val) - 1)
    /\ NextPixel[4] # 0
NearestOf(c) == blocks[FirstNearest(c, FALSE)].block
NearestNonFallingOf(c) == blocks[FirstNearest(c, TRUE)].block
NearestIsFalling(c) == Eligible(FALSE) # {} /\ NearestOf(c) \in FallingNames
DirectlyBelow(xyz) == <<xyz[1], xyz[2] - 1, xyz[3]>>
Committed == processed' = processed + 1
\* the entry the latest iteration processed
LastXYZ == mapping_positions[pos][2]
LastPixel == image_val[mapping_positions[pos][1] + 1]
LastMatched ==
    /\ pos >= 1
    /\ mapping_positions[pos][1] \in 0..(Len(image_val) - 1)
    /\ LastPixel[4] # 0

\* C9: falling substitution.  When the nearest match of an in-range, opaque
\* pixel is a falling material M, the schematic holds nothing directly below
\* the entry's coordinate and the Active Palette has a non-falling material,
\* the material committed at the coordinate is the nearest non-falling
\* material M', never M; the entry is committed unless the support query
\* raised an exception outside the handled kinds.
C9_FallingSubstitution ==
    [][ ( /\ EntryMatched
          /\ NearestIsFalling(NextPixel)
          /\ DirectlyBelow(NextXYZ) \notin DOMAIN schem
          /\ Eligible(TRUE) # {} )
        => /\ Committed =>
                /\ NextXYZ \in DOMAIN schem'
                /\ schem'[NextXYZ] = NearestNonFallingOf(NextPixel)
                /\ schem'[NextXYZ] \notin FallingNames
                /\ schem'[NextXYZ] # NearestOf(NextPixel)
                /\ block' = schem'[NextXYZ]
           /\ ~Committed => (schem' = schem /\ sink_read' \in UncaughtErrors)
      ]_vars

\* a substitute was committed after the support query answered air or None
C9_Witness ==
    /\ LastMatched
    /\ status = "running"
    /\ sink_read = "returned"
    /\ block_below \in {None, MINECRAFT_AIR_BLOCK}
    /\ NearestIsFalling(LastPixel)
    /\ schem[LastXYZ] = NearestNonFallingOf(LastPixel)
    /\ block = schem[LastXYZ]

\* C10: support.  When the nearest match is a falling material M and the
\* schematic holds a material directly below the entry's coordinate, M
\* itself is committed at the coordinate and no re-match is used.
C10_SupportedFallingKept ==
    [][ ( /\ EntryMatched
          /\ NearestIsFalling(NextPixel)
          /\ DirectlyBelow(NextXYZ) \in DOMAIN schem )
        => /\ Committed
           /\ NextXYZ \in DOMAIN schem'
           /\ schem'[NextXYZ] = NearestOf(NextPixel)
           /\ block' = NearestOf(NextPixel)
           /\ block_below' = schem[DirectlyBelow(NextXYZ)]
           /\ status' = "running"
      ]_vars

\* a falling material stands on the material placed below it
C10_Witness ==
    /\ LastMatched
    /\ sink_read = "returned"
    /\ DirectlyBelow(LastXYZ) \in DOMAIN schem
    /\ block_below = schem[DirectlyBelow(LastXYZ)]
    /\ block \in FallingNames
    /\ schem[LastXYZ] = block
    /\ block = NearestOf(LastPixel)

ReadErrors == CaughtErrors \cup UncaughtErrors

\* C11: when the query for the occupant below a falling match fails with a
\* read error of any kind, the error is not propagated: the entry is treated
\* as unsupported, re-matched without falling materials, and the substitute
\* is committed when one exists; the read failure alone never aborts the run.
C11_ReadErrorNeverAborts ==
    (pos >= 1 /\ sink_read \in ReadErrors) =>
        /\ exc \notin ReadErrors
        /\ Eligible(TRUE) # {} =>
              /\ status # "raised"
              /\ LastXYZ \in DOMAIN schem
              /\ schem[LastXYZ] = NearestNonFallingOf(LastPixel)

\* C12: when an entry's nearest match is a falling material without support
\* and the Active Palette has no non-falling material, the call ends with an
\* exception (ValueError, unless the support query itself raised an
\* exception outside the handled kinds, which then is the one that leaves
\* the call): nothing is placed for the entry, and once an exception has
\* left the call no later entry is processed and nothing is returned.
C12_NoSupportedMatchAborts ==
    [][ /\ status # "raised"
        /\ ( /\ EntryMatched
              /\ NearestIsFalling(NextPixel)
              /\ DirectlyBelow(NextXYZ) \notin DOMAIN schem
              /\ Eligible(TRUE) = {} )
           => /\ status' = "raised"
              /\ exc' = IF sink_read' \in UncaughtErrors THEN sink_read'
                        ELSE "ValueError"
              /\ schem' = schem
              /\ counts' = counts
              /\ processed' = processed
      ]_vars

\* ValueError for want of a non-falling block, with an entry left unprocessed
C12_Witness ==
    /\ status = "raised"
    /\ exc = "ValueError"
    /\ sink_read = "returned"
    /\ blocks # <<>>
    /\ Eligible(TRUE) = {}
    /\ pos < Len(mapping_positions)
    /\ schem = <<>>

\* entries of the mapping, by position 1..n, read off the mapping itself
IndexOf(i) == mapping_positions[i][1]
InRange(i) == IndexOf(i) \in 0 .. (Len(image_val) - 1)
AlphaOf(i) == image_val[IndexOf(i) + 1][4]
OutsideEntries(n) == {i \in 1 .. n : ~InRange(i)}
ClearEntries(n) == {i \in 1 .. n : InRange(i) /\ AlphaOf(i) = 0}

\* as long as no exception has left the call, the tallies account for the
\* entries fetched so far
SkipTallies ==
    status # "raised" =>
        /\ skipped_oob = Cardinality(OutsideEntries(pos))
        /\ skipped_transparent = Cardinality(ClearEntries(pos))
        /\ processed = pos - Cardinality(OutsideEntries(pos))
                           - Cardinality(ClearEntries(pos))

C13_WitnessBoth ==
    /\ status = "returned"
    /\ \E i \in 1 .. Len(mapping_positions) : IndexOf(i) >= Len(image_val)
    /\ skipped_oob = 1
    /\ skipped_transparent = 1

\* the count recorded for a material, zero when it has no entry
CountOf(name) == IF name \in DOMAIN counts THEN counts[name] ELSE 0
HeldAt(name) == {p \in DOMAIN schem : schem[p] = name}

\* C14: after a call that returns, the count of every material equals the
\* number of coordinates whose occupant in the schematic is that material,
\* also when two or more entries target the same coordinate.
C14_NetCounts ==
    status = "returned" =>
        \A m \in SeqToSet(all_blocks) :
            CountOf(m.block) = Cardinality(HeldAt(m.block))

\* the entries among the first n that address an opaque in-range pixel
OpaqueEntries(n) == (1 .. n) \ (OutsideEntries(n) \cup ClearEntries(n))
XYZOf(i) == mapping_positions[i][2]
PlacedByFirst(n) == {XYZOf(i) : i \in OpaqueEntries(n)}

\* the worked example: A below, B (falling) on top of it
ExampleCatalog ==
    /\ all_blocks = <<MaterialA, MaterialB>>
    /\ blocks = <<MaterialA, MaterialB>>
    /\ FallingNames \cap {"A", "B"} = {"B"}
    /\ image_val[1] = <<10, 10, 10, 255>>
    /\ image_val[2] = <<240, 240, 240, 255>>
ExampleMapping == <<  <<0, <<0, 0, 0>>>>, <<1, <<0, 1, 0>>>>  >>
ExampleReversed == <<  <<1, <<0, 1, 0>>>>, <<0, <<0, 0, 0>>>>  >>

\* what the schematic holds is what the first pos entries placed, and the
\* example returns the stated schematic and counts (the reversed mapping
\* does not: B has nothing below it yet and A is placed instead)
InMappingOrder ==
    /\ status # "raised" => DOMAIN schem = PlacedByFirst(pos)
    /\ (ExampleCatalog /\ status = "returned"
            /\ mapping_positions = ExampleMapping)
         => /\ schem = (<<0, 0, 0>> :> "A" @@ <<0, 1, 0>> :> "B")
            /\ counts = ("A" :> 1 @@ "B" :> 1)
    /\ (ExampleCatalog /\ status = "returned"
            /\ mapping_positions = ExampleReversed)
         => /\ schem = (<<0, 0, 0>> :> "A" @@ <<0, 1, 0>> :> "A")
            /\ counts = ("A" :> 2)

\* C15: entries are processed strictly in the order of the mapping and the
\* support check of an entry sees exactly what the entries before it
\* placed: a falling match is kept when an earlier entry placed a material
\* directly below it, and is not placed when none did; for the catalogue
\* {A, B falling}, mapping [(0,(0,0,0)), (1,(0,1,0))] and pixels
\* (10,10,10,255), (240,240,240,255) the call returns the schematic
\* {(0,0,0): A, (0,1,0): B} and the counts {A: 1, B: 1}.
C15_MappingOrder ==
    [][ /\ InMappingOrder'
        /\ (EntryMatched /\ NearestIsFalling(NextPixel)) =>
              IF DirectlyBelow(NextXYZ) \in PlacedByFirst(pos)
              THEN Committed /\ schem'[NextXYZ] = NearestOf(NextPixel)
              ELSE ~(Committed /\ schem'[NextXYZ] \in FallingNames)
      ]_vars

\* the example has returned
C15_Witness ==
    /\ ExampleCatalog
    /\ mapping_positions = ExampleMapping
    /\ status = "returned"
    /\ schem[<<0, 1, 0>>] = "B"
    /\ processed = 2

\* the allow-list a configuration selects (empty: none) and the materials a
\* resolution that gets past line 66 leaves, as sets
ChosenList(s) ==
    IF s.custom_palette # <<>> THEN s.custom_palette
    ELSE IF ThemeHasList(s) THEN predefined_palettes[s.theme]
    ELSE <<>>
ResolvedMembers(s) ==
    {m \in (IF ChosenList(s) = <<>> THEN FullCatalog
            ELSE NamedBy(ChosenList(s))) : ~InDisabledCategory(m.block, s)}
InCatalogOrder(members) == SelectSeq(all_blocks, LAMBDA m : m \in members)

\* C16: resolving the same configuration again against the same catalogue
\* gives an Active Palette with the same members in the same order; the
\* order is the catalogue's own order, whatever the order or repetition of
\* the names in the allow-list.
C16_DeterministicCatalogOrder ==
    [][ call'.op = "apply_settings" =>
          /\ blocks' = InCatalogOrder({blocks'[i] : i \in DOMAIN blocks'})
          /\ call'.line # 66 =>
                blocks' = InCatalogOrder(ResolvedMembers(call'.settings))
          /\ (call.op = "apply_settings" /\ call.settings = call'.settings)
                => blocks' = blocks
      ]_vars

\* an allow-list that names the catalogue's materials in another order,
\* one of them twice
C16_Witness ==
    /\ Resolved
    /\ call.settings.custom_palette = <<"D", "A", "D">>
    /\ all_blocks = <<MaterialA, MaterialD>>
    /\ blocks = <<MaterialA, MaterialD>>

\* what the Palette object holds, and the inputs of a conversion
PaletteState == <<blocks, all_blocks, blocktypes, predefined_palettes, settings>>
ConversionInputs == <<image_val, mapping_positions>>

\* C17: the palette is read-only during conversion: no step of the loop
\* and no find_block or get_falling_blocks query changes the Active Palette,
\* the full catalogue, the category table or the settings (nor the image or
\* the mapping); a conversion changes only its schematic, counts and
\* tallies.  Every step but an apply_settings call is covered.
C17_PaletteReadOnly ==
    [][ (status # "idle" \/ call'.op # "apply_settings") =>
            /\ PaletteState' = PaletteState
            /\ ConversionInputs' = ConversionInputs
      ]_vars

\* a returned conversion that matched twice for one entry (the substitution)
\* and whose palette is still what resolution left
C17_Witness ==
    /\ status = "returned"
    /\ processed >= 1
    /\ sink_read \in {"returned"} \cup CaughtErrors
    /\ block \notin FallingNames
    /\ \E i \in DOMAIN blocks : blocks[i].block \in FallingNames
    /\ blocks = InCatalogOrder(ResolvedMembers(call.settings))

\* C18: in every state of a conversion, whatever the mapping and however
\* many entries have been processed, every coordinate of the schematic that
\* holds a falling material has a block other than air at the coordinate
\* directly below it (same x and z, y-1).
C18_FallingIsSupported ==
    \A p \in DOMAIN schem :
        schem[p] \in FallingNames =>
            /\ DirectlyBelow(p) \in DOMAIN schem
            /\ schem[DirectlyBelow(p)] # "minecraft:air"

\* a falling material resting on a block an earlier entry placed
C18_Witness ==
    \E p \in DOMAIN schem :
        /\ schem[p] \in FallingNames
        /\ DirectlyBelow(p) \in DOMAIN schem
        /\ pos = 2

ActiveNames == {blocks[i].block : i \in DOMAIN blocks}
RECURSIVE SumOver(_)
SumOver(keys) ==
    IF keys = {} THEN 0
    ELSE LET k == CHOOSE x \in keys : TRUE
         IN  counts[k] + SumOver(keys \ {k})

\* C19: in every state of a conversion every material the schematic holds
\* and every key of the counts is a member of the Active Palette, every
\* count is a positive integer and the counts add up to the number of
\* entries committed so far; with the falling category disabled in the
\* configuration the schematic never holds a falling material.
C19_WithinPalette ==
    /\ \A p \in DOMAIN schem : schem[p] \in ActiveNames
    /\ DOMAIN counts \subseteq ActiveNames
    /\ \A k \in DOMAIN counts : counts[k] \in Nat \ {0}
    /\ SumOver(DOMAIN counts) = processed
    /\ status # "raised" => processed = Cardinality(OpaqueEntries(pos))
    /\ "falling_blocks" \in DisabledCategories(call.settings) =>
          \A p \in DOMAIN schem : schem[p] \notin FallingNames

\* two placements of one material, from a catalogue with a falling material
\* that the configuration disabled
C19_Witness ==
    /\ "falling_blocks" \in DisabledCategories(call.settings)
    /\ \E i \in DOMAIN all_blocks : all_blocks[i].block \in FallingNames
    /\ \E k \in DOMAIN counts : counts[k] = 2
    /\ schem # <<>>
====
